---- MODULE Spec2Model ----
(***************************************************************************)
(* Model of threeML/utils/time_series/polynomial.py: the Polynomial value  *)
(* object (coefficients, degree, covariance, owned integral polynomial)    *)
(* and the two fit drivers polyfit and unbinned_polyfit.                   *)
(*                                                                         *)
(* Numbers are exact rationals <<n, d>> (d > 0, lowest terms), so that the *)
(* divisions c[i-1] / float(i) and y / exposure are computed, not assumed. *)
(***************************************************************************)
EXTENDS Integers, Sequences, FiniteSets, TLC

\* ---------------------------------------------------------------- bounds
\* longest coefficient list that is constructed or assigned (at least one
\* coefficient: a polynomial of degree 0)
MaxLen == 2
\* most bins handed to polyfit, most events handed to unbinned_polyfit
MaxData == 2
MaxEvents == 2

\* coefficient values that are constructed or assigned
CoefVals == {0, 1, 2}

\* evaluation points handed to __call__ and integral
XVals == {-1, 0, 2}
\* diagonal values of a covariance matrix handed in from outside
CovVals == {1}
\* polyfit's inputs: counts per bin (NaN is the number with denominator 0),
\* exposure per bin; bin centres are 1, 2, ...
NaN == <<0, 0>>
YVals == {NaN, <<0, 1>>, <<1, 1>>, <<2, 1>>}
ExposureVals == {1, 2}
\* unbinned_polyfit's inputs
EventTimes == {1, 2}
TStartVals == {0, 1}
TStopVals == {2, 3}
\* where a fit or a sampler may leave the first free parameter (the i-th is
\* left i-1 higher), and the log-likelihoods the dataset may report
FitVals == {1, 2}
LogLikeVals == {-7, -2}

\* ------------------------------------------------------------- rationals
Abs(n) == IF n < 0 THEN -n ELSE n

RECURSIVE Gcd(_, _)
Gcd(a, b) == IF b = 0 THEN a ELSE Gcd(b, a % b)

\* the canonical form of n/d (d # 0)
Rat(n, d) ==
    LET s == IF d < 0 THEN -1 ELSE 1
        g == Gcd(Abs(n), Abs(d))
    IN  <<(s * n) \div g, (s * d) \div g>>

RatInt(n) == <<n, 1>>
RatAdd(p, q) == Rat(p[1] * q[2] + q[1] * p[2], p[2] * q[2])
RatSub(p, q) == Rat(p[1] * q[2] - q[1] * p[2], p[2] * q[2])
RatMulInt(p, k) == Rat(p[1] * k, p[2])
RatDivInt(p, k) == Rat(p[1], p[2] * k)

\* a coefficient list given as integers, as the list of numbers it is
RECURSIVE AsRats(_)
AsRats(s) == IF s = <<>> THEN <<>> ELSE <<RatInt(Head(s))>> \o AsRats(Tail(s))

\* all sequences over S of length lo..hi
SeqsOf(S, lo, hi) == UNION {[1..n -> S] : n \in lo..hi}

CoefLists == {AsRats(s) : s \in SeqsOf(CoefVals, 1, MaxLen)}

\* np.zeros((n, n)) and a diagonal n x n matrix
Zeros(n) == [i \in 1..n |-> [j \in 1..n |-> 0]]
Diag(n, v) == [i \in 1..n |-> [j \in 1..n |-> IF i = j THEN v ELSE 0]]

\* ------------------------------------------------------------ Polynomial
\* integral_coeff = [0] + [coefficients[i-1] / float(i) for i in 1..degree+1];
\* defined only when every index i-1 exists (else the code raises IndexError)
IntegralCoeff(coefficients, degree) ==
    <<RatInt(0)>> \o [i \in 1..(degree + 1) |-> RatDivInt(coefficients[i], i)]

\* Polynomial.__init__: an object is a record; the attribute
\* _integral_polynomial is <<>> when the object has none, else <<object>>.
\* is_integral records the constructor argument (the object does not keep it).
RECURSIVE Polynomial(_, _)
Polynomial(coefficients, is_integral) ==
    LET degree == Len(coefficients) - 1
    IN  [ coefficients |-> coefficients,
          degree |-> degree,
          cov_matrix |-> Zeros(degree + 1),
          is_integral |-> is_integral,
          integral_polynomial |->
              IF ~is_integral
              THEN <<Polynomial(IntegralCoeff(coefficients, degree), TRUE)>>
              ELSE <<>> ]

\* Polynomial.from_previous_fit
from_previous_fit(coefficients, covariance) ==
    [Polynomial(coefficients, FALSE) EXCEPT !.cov_matrix = covariance]

\* whether __set_coefficient(val) on self raises IndexError in its comprehension
SetRaises(self, val) == Len(val) < self.degree + 1

\* Polynomial.__set_coefficient, first statement: self._coefficients = val
StoreCoefficient(self, val) == [self EXCEPT !.coefficients = val]

\* Polynomial.__set_coefficient, the rest: build integral_coeff from the stored
\* coefficients with the stored _degree and replace _integral_polynomial
RebuildIntegral(self) ==
    [self EXCEPT !.integral_polynomial =
        <<Polynomial(IntegralCoeff(self.coefficients, self.degree), TRUE)>>]

\* Polynomial.__set_coefficient as one call: the object afterwards
set_coefficient(self, val) ==
    LET stored == StoreCoefficient(self, val)
    IN  IF SetRaises(self, val) THEN stored ELSE RebuildIntegral(stored)

\* Polynomial.__call__: Horner over the reversed coefficient list
RECURSIVE Horner(_, _, _)
Horner(rev, x, result) ==
    IF rev = <<>> THEN result
    ELSE Horner(Tail(rev), x, RatAdd(RatMulInt(result, x), Head(rev)))

Reverse(s) == [i \in 1..Len(s) |-> s[Len(s) + 1 - i]]

\* a Horner loop that walks the list front to back (the [::-1] left out)
CallForward(self, x) == Horner(self.coefficients, x, RatInt(0))

Call(self, x) == Horner(Reverse(self.coefficients), x, RatInt(0))

\* Polynomial.integral (defined when the object has an integral polynomial)
integral(self, xmin, xmax) ==
    RatSub(Call(self.integral_polynomial[1], xmax),
           Call(self.integral_polynomial[1], xmin))

\* ------------------------------------------------ shapes and parameters
\* _grade_model_lookup = (Line, Line, Quadratic, Cubic, Quadratic)
grade_model_lookup(grade) ==
    <<"Line", "Line", "Quadratic", "Cubic", "Quadratic">>[grade + 1]

\* the parameters of a shape, in the order free_parameters lists them
ParameterNames(shape) ==
    CASE shape = "Line" -> <<"a", "b">>
      [] shape = "Quadratic" -> <<"a", "b", "c">>
      [] shape = "Cubic" -> <<"a", "b", "c", "d">>

\* shape = _grade_model_lookup[grade](): every parameter free, at its default
NewShape(grade) ==
    LET names == ParameterNames(grade_model_lookup(grade))
    IN  [i \in 1..Len(names) |->
            [name |-> names[i], value |-> RatInt(1), fix |-> FALSE,
             bounds |-> "default", prior |-> <<"none">>]]

\* model.free_parameters: the positions of the parameters that are not fixed
RECURSIVE FreeFrom(_, _)
FreeFrom(params, i) ==
    IF i > Len(params) THEN <<>>
    ELSE (IF params[i].fix THEN <<>> ELSE <<i>>) \o FreeFrom(params, i + 1)

free_parameters(params) == FreeFrom(params, 1)

\* position of parameter i among the free ones (0 when it is fixed)
FreeRank(params, i) ==
    LET free == free_parameters(params)
    IN  IF \E k \in 1..Len(free) : free[k] = i
        THEN CHOOSE k \in 1..Len(free) : free[k] = i
        ELSE 0

\* [v.value for _, v in model.free_parameters.items()]
FreeValues(params) ==
    LET free == free_parameters(params)
    IN  [k \in 1..Len(free) |-> params[free[k]].value]

\* the MLE loops: first free parameter bounded below by 0 and set to `first`,
\* the others set to 0.0
InitMLE(params, first) ==
    [i \in 1..Len(params) |->
        LET k == FreeRank(params, i)
        IN  IF k = 0 THEN params[i]
            ELSE IF k = 1
            THEN [params[i] EXCEPT !.bounds = "(0, None)", !.value = first]
            ELSE [params[i] EXCEPT !.value = RatInt(0)]]

\* the Bayesian loops: priors on every free parameter, first value 1, the
\* others `other`
InitBayes(params, first_prior, other_prior, other) ==
    [i \in 1..Len(params) |->
        LET k == FreeRank(params, i)
        IN  IF k = 0 THEN params[i]
            ELSE IF k = 1
            THEN [params[i] EXCEPT !.bounds = "(0, None)", !.prior = first_prior,
                                   !.value = RatInt(1)]
            ELSE [params[i] EXCEPT !.prior = other_prior, !.value = other]]

\* a driver that never fixes the linear term
FixLinearTermNever(params, grade) == params

\* if grade == 0: shape.b = 0; shape.b.fix = True
FixLinearTerm(params, grade) ==
    IF grade = 0
    THEN [i \in 1..Len(params) |->
            IF params[i].name = "b"
            THEN [params[i] EXCEPT !.value = RatInt(0), !.fix = TRUE]
            ELSE params[i]]
    ELSE params

\* what an optimizer or sampler does to the model: the k-th free parameter is
\* left at v + k - 1, fixed parameters are not touched
MoveFree(params, v) ==
    [i \in 1..Len(params) |->
        LET k == FreeRank(params, i)
        IN  IF k = 0 THEN params[i]
            ELSE [params[i] EXCEPT !.value = RatInt(v + k - 1)]]

\* ------------------------------------------------------- polyfit's data
\* nan_mask = np.isnan(y)
nan_mask(y) == [i \in 1..Len(y) |-> y[i][2] = 0]

\* seq[~mask]: boolean-mask indexing
RECURSIVE KeepFrom(_, _, _)
KeepFrom(seq, mask, i) ==
    IF i > Len(mask) THEN <<>>
    ELSE (IF mask[i] THEN <<>> ELSE <<seq[i]>>) \o KeepFrom(seq, mask, i + 1)

NotMasked(seq, mask) == KeepFrom(seq, mask, 1)

\* a masking that forgets the exposure array
MaskedDataKeepExposure(a) ==
    LET mask == nan_mask(a.y)
    IN  [x |-> NotMasked(a.x, mask), y |-> NotMasked(a.y, mask),
         exposure |-> a.exposure]

\* y = y[~nan_mask]; x = x[~nan_mask]; exposure = exposure[~nan_mask]
MaskedData(a) ==
    LET mask == nan_mask(a.y)
    IN  [x |-> NotMasked(a.x, mask), y |-> NotMasked(a.y, mask),
         exposure |-> NotMasked(a.exposure, mask)]

\* a count of the bins with y >= 0
n_non_zero_or_zero(y) == Cardinality({i \in 1..Len(y) : y[i][1] >= 0})

\* non_zero_mask = y > 0; n_non_zero = non_zero_mask.sum()
n_non_zero(y) == Cardinality({i \in 1..Len(y) : y[i][1] > 0})

RECURSIVE RatSum(_)
RatSum(s) == IF s = <<>> THEN RatInt(0) ELSE RatAdd(Head(s), RatSum(Tail(s)))

\* avg = np.mean(y / exposure)
MeanRate(d) ==
    RatDivInt(RatSum([i \in 1..Len(d.y) |-> RatDivInt(d.y[i], d.exposure[i])]),
              Len(d.y))

\* Polynomial([0.0] * (grade + 1)), Polynomial([0] * (grade + 1))
ZeroPolynomial(grade) == Polynomial([i \in 1..(grade + 1) |-> RatInt(0)], FALSE)

\* a driver that keeps going after the second failure, whichever it is
AfterSecondFailureAccept(f) == "collect"

\* what follows the second failed jl.fit: polyfit passes and goes on to collect
\* the coefficients, unbinned_polyfit returns the zero polynomial
AfterSecondFailure(f) == IF f = "polyfit" THEN "collect" ELSE "sentinel"

\* ----------------------------------------------------------------- state
VARIABLES
    poly,      \* the Polynomial object under test
    assigned,  \* history of poly: "no" assignment to coefficients since it was
               \* constructed, only "same"-length ones, or an "other"-length one
    last,      \* the last operation on poly: its arguments and what it returned
    spc,       \* concurrent setter: "idle", or "stored" between its two writes
    sold,      \* concurrent setter: the coefficients it replaced
    obs,       \* what a concurrent reader saw in its last read
    fn,        \* the fit driver called: "polyfit" or "unbinned_polyfit"
    args,      \* its arguments
    pc,        \* where the call is
    data,      \* <<>>, or <<what was handed to the dataset plugin>>
    params,    \* the shape's parameters (<<>> before the shape is made)
    fits,      \* the calls of jl.fit so far: "ok" or "raise" each
    nsample,   \* calls of ba.sample so far
    results,   \* jl.results / ba.results: <<>> or <<covariance matrix>>
    ret        \* <<>>, or <<what the call returned or raised>>

poly_vars == <<poly, assigned, last>>

conc_vars == <<spc, sold, obs>>

fit_vars == <<fn, args, pc, data, params, fits, nsample, results, ret>>

vars == <<poly, assigned, last, spc, sold, obs,
          fn, args, pc, data, params, fits, nsample, results, ret>>

nfit == Len(fits)

\* JointLikelihood.results and BayesianAnalysis.results before any fit has
\* succeeded: no results object
NoResults == <<>>

NoCall ==
    /\ fn = "none"
    /\ args = <<>>
    /\ pc = "none"
    /\ data = <<>>
    /\ params = <<>>
    /\ fits = <<>>
    /\ nsample = 0
    /\ results = NoResults
    /\ ret = <<>>

NoObs == [seen |-> FALSE]

ConcIdle ==
    /\ spc = "idle"
    /\ sold = <<>>
    /\ obs = NoObs

\* ------------------------------------------- one thread: the object's API
Init ==
    /\ \E c \in CoefLists, f \in BOOLEAN : poly = Polynomial(c, f)
    /\ assigned = "no"
    /\ last = [op |-> "init"]
    /\ ConcIdle
    /\ NoCall

\* p = Polynomial(c, is_integral=f)
Construct ==
    \E c \in CoefLists, f \in BOOLEAN :
        /\ poly' = Polynomial(c, f)
        /\ assigned' = "no"
        /\ last' = [op |-> "init"]
        /\ UNCHANGED <<conc_vars, fit_vars>>

\* p = Polynomial.from_previous_fit(c, cov)
FromPreviousFit ==
    \E c \in CoefLists, v \in CovVals :
        /\ poly' = from_previous_fit(c, Diag(Len(c), v))
        /\ assigned' = "no"
        /\ last' = [op |-> "from_previous_fit"]
        /\ UNCHANGED <<conc_vars, fit_vars>>

\* p.coefficients = val
SetCoefficients ==
    \E val \in CoefLists :
        /\ poly' = set_coefficient(poly, val)
        /\ assigned' = IF Len(val) = Len(poly.coefficients) /\ assigned # "other"
                       THEN "same" ELSE "other"
        /\ last' = [op |-> "set", raised |-> SetRaises(poly, val)]
        /\ UNCHANGED <<conc_vars, fit_vars>>

\* p.set_covariace_matrix(matrix)
SetCovariance ==
    \E v \in CovVals :
        /\ poly' = [poly EXCEPT !.cov_matrix = Diag(poly.degree + 1, v)]
        /\ last' = [op |-> "set_covariance"]
        /\ UNCHANGED <<assigned, conc_vars, fit_vars>>

\* p(x)
Evaluate ==
    \E x \in XVals :
        /\ last' = [op |-> "call", x |-> x, result |-> Call(poly, x)]
        /\ UNCHANGED <<poly, assigned, conc_vars, fit_vars>>

\* p.integral(xmin, xmax): AttributeError when there is no integral polynomial
Integrate ==
    \E xmin \in XVals, xmax \in XVals :
        /\ last' = IF poly.integral_polynomial = <<>>
                   THEN [op |-> "integral", raised |-> TRUE]
                   ELSE [op |-> "integral", raised |-> FALSE,
                         xmin |-> xmin, xmax |-> xmax,
                         result |-> integral(poly, xmin, xmax)]
        /\ UNCHANGED <<poly, assigned, conc_vars, fit_vars>>

Next ==
    \/ Construct
    \/ FromPreviousFit
    \/ SetCoefficients
    \/ SetCovariance
    \/ Evaluate
    \/ Integrate

Spec == Init /\ [][Next]_vars

\* ---------------------------- two threads: a setter call and a reader
\* The setter is its two writes, in program order; nothing in the class
\* orders them with respect to another thread.
InitConc ==
    /\ \E c \in CoefLists : poly = Polynomial(c, FALSE)
    /\ assigned = "no"
    /\ last = [op |-> "init"]
    /\ ConcIdle
    /\ NoCall

\* self._coefficients = val
SetterStore ==
    \E val \in CoefLists :
        /\ spc = "idle"
        /\ poly' = StoreCoefficient(poly, val)
        /\ sold' = poly.coefficients
        /\ spc' = "stored"
        /\ UNCHANGED <<assigned, last, obs, fit_vars>>

\* integral_coeff = ...; self._integral_polynomial = Polynomial(...), or the
\* IndexError of the comprehension, which ends the call with nothing rebuilt
SetterRebuild ==
    /\ spc = "stored"
    /\ poly' = IF Len(poly.coefficients) < poly.degree + 1
               THEN poly ELSE RebuildIntegral(poly)
    /\ spc' = "idle"
    /\ sold' = <<>>
    /\ UNCHANGED <<assigned, last, obs, fit_vars>>

\* another thread: p(x) and p.integral(...), which read _coefficients and
\* _integral_polynomial
Reader ==
    /\ obs' = [seen |-> TRUE,
               during_set |-> spc = "stored",
               old |-> sold,
               degree |-> poly.degree,
               coefficients |-> poly.coefficients,
               integral_coefficients |-> poly.integral_polynomial[1].coefficients]
    /\ UNCHANGED <<poly, assigned, last, spc, sold, fit_vars>>

NextConc ==
    \/ SetterStore
    \/ SetterRebuild
    \/ Reader

SpecConc == InitConc /\ [][NextConc]_vars

\* ------------------------------------- one call of a fit driver, in steps
\* A step is the code between two calls into the optimizer or sampler.
Grades == 0..4

PolyfitArgs ==
    UNION {{[grade |-> g, bayes |-> b,
             x |-> [i \in 1..n |-> i], y |-> y, exposure |-> e] :
               g \in Grades, b \in BOOLEAN,
               y \in [1..n -> YVals], e \in [1..n -> ExposureVals]} :
           n \in 0..MaxData}

UnbinnedArgs ==
    {[grade |-> g, bayes |-> b,
      events |-> ev, t_start |-> t0, t_stop |-> t1, exposure |-> e] :
        g \in Grades, b \in BOOLEAN,
        ev \in SeqsOf(EventTimes, 0, MaxEvents), t0 \in TStartVals,
        t1 \in TStopVals, e \in ExposureVals}

InitFit ==
    /\ fn \in {"polyfit", "unbinned_polyfit"}
    /\ args \in (IF fn = "polyfit" THEN PolyfitArgs ELSE UnbinnedArgs)
    /\ pc = "call"
    /\ data = <<>>
    /\ params = <<>>
    /\ fits = <<>>
    /\ nsample = 0
    /\ results = NoResults
    /\ ret = <<>>
    /\ poly = ZeroPolynomial(0)
    /\ assigned = "no"
    /\ last = [op |-> "init"]
    /\ ConcIdle

Returned(polynomial, likelihood) ==
    <<[kind |-> "return", polynomial |-> polynomial, likelihood |-> likelihood]>>

Raised(exception) == <<[kind |-> "raise", exception |-> exception]>>

\* polyfit up to the XYLike plugin: mask the NaN bins, return the zero
\* polynomial when no bin has counts, else make shape, model, avg and dataset
PolyfitPrepare ==
    /\ fn = "polyfit"
    /\ pc = "call"
    /\ LET d == MaskedData(args)
       IN  IF n_non_zero(d.y) = 0
           THEN /\ ret' = Returned(ZeroPolynomial(args.grade), RatInt(0))
                /\ pc' = "done"
                /\ UNCHANGED <<data, params>>
           ELSE /\ params' = NewShape(args.grade)
                /\ data' = <<[x |-> d.x, y |-> d.y, exposure |-> d.exposure,
                              avg |-> MeanRate(d)]>>
                /\ pc' = "built"
                /\ ret' = ret
    /\ UNCHANGED <<fn, args, fits, nsample, results, poly_vars, conc_vars>>

\* unbinned_polyfit up to the UnbinnedPoissonLike plugin
UnbinnedPrepare ==
    /\ fn = "unbinned_polyfit"
    /\ pc = "call"
    /\ IF Len(args.events) = 0
       THEN /\ ret' = Returned(ZeroPolynomial(args.grade), RatInt(0))
            /\ pc' = "done"
            /\ UNCHANGED <<data, params>>
       ELSE /\ params' = NewShape(args.grade)
            /\ data' = <<[events |-> args.events, exposure |-> args.exposure,
                          t_start |-> args.t_start, t_stop |-> args.t_stop]>>
            /\ pc' = "built"
            /\ ret' = ret
    /\ UNCHANGED <<fn, args, fits, nsample, results, poly_vars, conc_vars>>

\* the loop over model.free_parameters of the branch taken
InitialiseParameters ==
    /\ pc = "built"
    /\ params' =
         IF ~args.bayes
         THEN InitMLE(params, IF fn = "polyfit" THEN data[1].avg ELSE RatInt(10))
         ELSE IF fn = "polyfit"
         THEN InitBayes(params, "Log_normal(log(avg), max(log(avg/2), 1))",
                        "Gaussian(0, 2)", Rat(1, 100))
         ELSE InitBayes(params, "Log_normal(log(5), log(5))",
                        "Gaussian(0, .5)", Rat(1, 10))
    /\ pc' = "inited"
    /\ UNCHANGED <<fn, args, data, fits, nsample, results, ret,
                   poly_vars, conc_vars>>

\* if grade == 0: ...; then the JointLikelihood / BayesianAnalysis object and
\* its minimizer or sampler are set up
FixGradeZero ==
    /\ pc = "inited"
    /\ params' = FixLinearTerm(params, args.grade)
    /\ pc' = "ready"
    /\ UNCHANGED <<fn, args, data, fits, nsample, results, ret,
                   poly_vars, conc_vars>>

\* jl.fit(quiet=True) returns: the free parameters are at the best fit and
\* jl.results holds its covariance
FitReturns ==
    /\ pc \in {"ready", "retry"}
    /\ ~args.bayes
    /\ \E v \in FitVals, c \in CovVals :
        /\ params' = MoveFree(params, v)
        /\ results' = <<Diag(Len(free_parameters(params)), c)>>
    /\ fits' = Append(fits, "ok")
    /\ pc' = "fitted"
    /\ UNCHANGED <<fn, args, data, nsample, ret, poly_vars, conc_vars>>

\* jl.fit(quiet=True) raises, leaving the free parameters where they were or
\* where the optimizer had moved them; the first time the except clause calls
\* it again, the second time see AfterSecondFailure
FitRaises ==
    /\ pc \in {"ready", "retry"}
    /\ ~args.bayes
    /\ \E moved \in BOOLEAN, v \in FitVals :
        params' = IF moved THEN MoveFree(params, v) ELSE params
    /\ fits' = Append(fits, "raise")
    /\ IF pc = "ready"
       THEN pc' = "retry" /\ ret' = ret
       ELSE IF AfterSecondFailure(fn) = "collect"
       THEN pc' = "fitted" /\ ret' = ret
       ELSE /\ pc' = "done"
            /\ ret' = Returned(ZeroPolynomial(args.grade), RatInt(0))
    /\ UNCHANGED <<fn, args, data, nsample, results, poly_vars, conc_vars>>

\* ba.sample(quiet=True); ba.restore_median_fit(): the free parameters are at
\* the posterior median
Sample ==
    /\ pc = "ready"
    /\ args.bayes
    /\ \E v \in FitVals, c \in CovVals :
        /\ params' = MoveFree(params, v)
        /\ results' = <<Diag(Len(free_parameters(params)), c)>>
    /\ nsample' = nsample + 1
    /\ pc' = "fitted"
    /\ UNCHANGED <<fn, args, data, fits, ret, poly_vars, conc_vars>>

\* coeff = [...]; final_polynomial = Polynomial(coeff);
\* final_polynomial.set_covariace_matrix(<results>.covariance_matrix);
\* min_log_likelihood = xy.get_log_like(); return
Collect ==
    /\ pc = "fitted"
    /\ LET final_polynomial == Polynomial(FreeValues(params), FALSE)
       IN  IF results = NoResults
           THEN ret' = Raised("AttributeError")
           ELSE \E min_log_likelihood \in LogLikeVals :
                  ret' = Returned(
                      [final_polynomial EXCEPT !.cov_matrix = results[1]],
                      RatInt(-min_log_likelihood))
    /\ pc' = "done"
    /\ UNCHANGED <<fn, args, data, params, fits, nsample, results,
                   poly_vars, conc_vars>>

NextFit ==
    \/ PolyfitPrepare
    \/ UnbinnedPrepare
    \/ InitialiseParameters
    \/ FixGradeZero
    \/ FitReturns
    \/ FitRaises
    \/ Sample
    \/ Collect

SpecFit == InitFit /\ [][NextFit]_vars

\* ---------------------------------------------------------------- claims
\* sum over i of c[i] * x^i, for integer coefficients, term by term
RECURSIVE Pow(_, _)
Pow(x, n) == IF n = 0 THEN 1 ELSE x * Pow(x, n - 1)

RECURSIVE PowerSum(_, _, _)
PowerSum(c, x, k) ==
    IF k > Len(c) THEN 0 ELSE c[k][1] * Pow(x, k - 1) + PowerSum(c, x, k + 1)

\* ic is [0, c[0]/1, c[1]/2, ..., c[n]/(n+1)], by cross-multiplication
IsIntegralOf(ic, c) ==
    /\ Len(ic) = Len(c) + 1
    /\ ic[1][1] = 0
    /\ \A k \in 1..Len(c) : ic[k + 1][1] * c[k][2] * k = c[k][1] * ic[k + 1][2]

\* C1: for a Polynomial constructed with is_integral=False, after any sequence
\* of assignments to coefficients (of any length), the integral polynomial's
\* coefficients are [0, c[0]/1, ..., c[n]/(n+1)] for the stored list c, and
\* degree is len(c) - 1.
C1_IntegralFollowsCoefficients ==
    ~poly.is_integral =>
        /\ poly.degree = Len(poly.coefficients) - 1
        /\ poly.integral_polynomial # <<>>
        /\ IsIntegralOf(poly.integral_polynomial[1].coefficients, poly.coefficients)

\* C6: a Polynomial constructed with is_integral=True has no integral
\* polynomial, and no integral polynomial owns a further integral polynomial,
\* after any sequence of constructions, from_previous_fit calls and assignments.
C6_OneLevelOnly ==
    /\ poly.is_integral => poly.integral_polynomial = <<>>
    /\ poly.integral_polynomial # <<>> =>
           poly.integral_polynomial[1].integral_polynomial = <<>>

\* C9: p(x) returns the sum of c[i] * x^i over the stored coefficient list c,
\* also after same-length assignments; [1, 2, 3] at x = 2 gives 17.
C9_CallIsPowerSum ==
    /\ last.op = "call" =>
           last.result = <<PowerSum(poly.coefficients, last.x, 1), 1>>
    /\ Call(Polynomial(AsRats(<<1, 2, 3>>), FALSE), 2) = <<17, 1>>

\* C9 witness: a degree-1 polynomial with two non-zero coefficients, assigned
\* a same-length list, then evaluated away from 0
C9_Witness ==
    /\ last.op = "call"
    /\ last.x = 2
    /\ assigned = "same"
    /\ Len(poly.coefficients) = 2
    /\ poly.coefficients[1][1] = 1
    /\ poly.coefficients[2][1] = 2

\* C5: a reader that interleaves with a setter call never sees the new
\* coefficients together with the integral polynomial of the old ones.
C5_NoTornRead ==
    obs.seen =>
        ~ /\ obs.during_set
          /\ obs.coefficients # obs.old
          /\ IsIntegralOf(obs.integral_coefficients, obs.old)
          /\ ~IsIntegralOf(obs.integral_coefficients, obs.coefficients)

\* ------------------------------------------------- claims on the drivers
\* the zero-polynomial sentinel for a grade: grade+1 coefficients all 0, an
\* all-zero (grade+1) x (grade+1) covariance, likelihood 0
IsZeroSentinel(r, grade) ==
    /\ r.kind = "return"
    /\ Len(r.polynomial.coefficients) = grade + 1
    /\ \A i \in 1..(grade + 1) : r.polynomial.coefficients[i][1] = 0
    /\ Len(r.polynomial.cov_matrix) = grade + 1
    /\ \A i \in 1..(grade + 1) :
         /\ Len(r.polynomial.cov_matrix[i]) = grade + 1
         /\ \A j \in 1..(grade + 1) : r.polynomial.cov_matrix[i][j] = 0
    /\ r.likelihood[1] = 0

\* some bin that is not NaN has y > 0
HasPositiveCount(a) == \E i \in 1..Len(a.y) : a.y[i][2] # 0 /\ a.y[i][1] > 0

\* C2: polyfit, bayes=False, some positive count: jl.fit is called at most
\* twice, the second time only if the first raised, and whatever the two
\* attempts did the call does not raise: it returns a Polynomial of the model's
\* current free-parameter values, with a likelihood.
C2_PolyfitNeverRaises ==
    (fn = "polyfit" /\ ~args.bayes /\ HasPositiveCount(args)) =>
        /\ nfit <= 2
        /\ nfit = 2 => fits[1] = "raise"
        /\ pc = "done" =>
             /\ ret[1].kind = "return"
             /\ ret[1].polynomial.coefficients = FreeValues(params)

\* C3: unbinned_polyfit, bayes=False, some event: jl.fit is called at most
\* twice, the second time only if the first raised; if both raised the call
\* returns the zero sentinel (never the model's parameter values), else the
\* returned coefficients are the model's free-parameter values.
C3_UnbinnedFallback ==
    (fn = "unbinned_polyfit" /\ ~args.bayes /\ Len(args.events) > 0) =>
        /\ nfit <= 2
        /\ nfit = 2 => fits[1] = "raise"
        /\ pc = "done" =>
             /\ ret # <<>>
             /\ ret[1].kind = "return"
             /\ IF fits = <<"raise", "raise">>
                THEN IsZeroSentinel(ret[1], args.grade)
                ELSE /\ fits[nfit] = "ok"
                     /\ ret[1].polynomial.coefficients = FreeValues(params)

\* C3 witness: both attempts raised, the optimizer had moved the parameters
\* away from 0, and the call returned
C3_Witness ==
    /\ fn = "unbinned_polyfit"
    /\ pc = "done"
    /\ fits = <<"raise", "raise">>
    /\ args.grade = 2
    /\ params[2].value # RatInt(0)
    /\ ret[1].kind = "return"

\* polyfit's / unbinned_polyfit's arguments hold no usable data
InsufficientData ==
    \/ fn = "polyfit" /\ ~HasPositiveCount(args)
    \/ fn = "unbinned_polyfit" /\ args.events = <<>>

\* C4: with insufficient data, for every grade and either value of bayes, the
\* call returns the zero sentinel and makes no model, dataset, fit or sample.
C4_InsufficientDataSentinel ==
    (InsufficientData /\ pc # "call") =>
        /\ pc = "done"
        /\ ret # <<>>
        /\ IsZeroSentinel(ret[1], args.grade)
        /\ params = <<>>
        /\ data = <<>>
        /\ nfit = 0
        /\ nsample = 0

\* C4 witness: polyfit at grade 4 on a NaN bin and an empty bin has returned
C4_Witness ==
    /\ fn = "polyfit"
    /\ pc = "done"
    /\ args.grade = 4
    /\ args.bayes
    /\ args.y = <<NaN, <<0, 1>>>>

ParamNamed(name) == params[CHOOSE i \in 1..Len(params) : params[i].name = name]

\* C7: at grade 0, on all four paths, b is 0 and fixed once the loop over the
\* free parameters has run and before the optimizer or sampler is first
\* called, stays so to the end of the call, and is not a returned coefficient.
C7_LinearTermFixed ==
    /\ (nfit > 0 \/ nsample > 0) => pc \in {"retry", "fitted", "done"}
    /\ (args.grade = 0 /\ pc \in {"ready", "retry", "fitted", "done"}
           /\ params # <<>>) =>
        /\ ParamNamed("a").bounds = "(0, None)"
        /\ ParamNamed("b").value = RatInt(0)
        /\ ParamNamed("b").fix
        /\ FreeValues(params) = <<ParamNamed("a").value>>
        /\ (pc = "done" /\ ret[1].kind = "return" /\ results # NoResults) =>
               ret[1].polynomial.coefficients = <<ParamNamed("a").value>>

\* C7 witness: a grade-0 Bayesian unbinned call has sampled and returned
C7_Witness ==
    /\ fn = "unbinned_polyfit"
    /\ args.grade = 0
    /\ args.bayes
    /\ nsample = 1
    /\ pc = "done"
    /\ ret[1].kind = "return"
    /\ ret[1].polynomial.coefficients = <<RatInt(2)>>

\* the k-th index at which y is not NaN
SurvivingIndex(y, k) ==
    LET keep == {i \in 1..Len(y) : y[i] # NaN}
    IN  CHOOSE i \in keep : Cardinality({j \in keep : j <= i}) = k

\* polyfit's arguments with the NaN indices removed from x, y and exposure
PreRemoved(a) ==
    LET n == Cardinality({i \in 1..Len(a.y) : a.y[i] # NaN})
    IN  [grade |-> a.grade, bayes |-> a.bayes,
         x |-> [k \in 1..n |-> a.x[SurvivingIndex(a.y, k)]],
         y |-> [k \in 1..n |-> a.y[SurvivingIndex(a.y, k)]],
         exposure |-> [k \in 1..n |-> a.exposure[SurvivingIndex(a.y, k)]]]

\* what polyfit called with arguments a hands to the dataset plugin
HandedOver(a) ==
    LET d == MaskedData(a)
    IN  IF n_non_zero(d.y) = 0 THEN <<>>
        ELSE <<[x |-> d.x, y |-> d.y, exposure |-> d.exposure,
                avg |-> MeanRate(d)]>>

\* C8: polyfit hands the dataset the x, y, exposure and mean rate it would
\* hand over had the NaN indices been removed from its arguments beforehand,
\* and takes the zero-polynomial return in the same cases.
C8_NaNRemovalInvariant ==
    (fn = "polyfit" /\ pc # "call") =>
        /\ data = HandedOver(PreRemoved(args))
        /\ (pc = "done" /\ params = <<>>) <=> HandedOver(PreRemoved(args)) = <<>>
        /\ PreRemoved(args).y = SelectSeq(args.y, LAMBDA v : v # NaN)

\* C8 witness: a NaN in the first of two bins, the second handed over
C8_Witness ==
    /\ fn = "polyfit"
    /\ pc = "built"
    /\ args.y = <<NaN, <<2, 1>>>>
    /\ args.exposure = <<1, 2>>
    /\ data[1].x = <<2>>
    /\ data[1].exposure = <<2>>
    /\ data[1].avg = RatInt(1)

\* C10: every return of polyfit and unbinned_polyfit for a grade carries
\* grade+1 coefficients, degree = grade and a (grade+1) x (grade+1) covariance.
C10_GradePlusOneCoefficients ==
    (pc = "done" /\ ret[1].kind = "return") =>
        /\ Len(ret[1].polynomial.coefficients) = args.grade + 1
        /\ ret[1].polynomial.degree = args.grade
        /\ Len(ret[1].polynomial.cov_matrix) = args.grade + 1

====
